---- MODULE Spec2Model ----
(***************************************************************************)
(* jod_thread: a join-on-drop wrapper around std::thread::JoinHandle.      *)
(*                                                                         *)
(* The model has one owning thread (the caller, running inside a           *)
(* catch_unwind scope as in the smoke test) and up to MaxHandles spawn     *)
(* call sites, each of which may create one native thread.  The owning     *)
(* thread blocks in join and in the destructor, so both are split at the   *)
(* blocking point: XBegin takes the slot and calls the native join,        *)
(* XFinish runs when the native join returns.                              *)
(***************************************************************************)
EXTENDS Integers, FiniteSets, Sequences, TLC

MaxHandles == 1
MaxVal == 1

H == 1..MaxHandles
Values == 0..MaxVal

\* A closure: whether it increments the shared counter, whether it panics,
\* and the value it returns when it does not panic.
Closures == {c \in [effect : BOOLEAN, panics : BOOLEAN, val : Values] :
                 c.panics => c.val = 0}
NoClosure == [effect |-> FALSE, panics |-> FALSE, val |-> 0]

\* Result<T, FailureCause> of the native join.
NoResult == [ok |-> TRUE, val |-> 0]

VARIABLES
    life,         \* per call site: "unborn", "failed", "live", "dead"
    slot,         \* JoinHandle.0: "Absent" (no object), "Some", "None"
    tstate,       \* native thread: "none", "running", "finishing", "exited"
    closure,      \* the closure the thread runs
    result,       \* what the native join yields once the thread has exited
    counter,      \* the shared COUNTER of the smoke test
    nwaits,       \* number of native join calls made on the thread
    ntakes,       \* number of times the slot went Some -> None
    consumedBy,   \* "none", "join", "detach", "drop"
    fin,          \* how the consuming operation ended
    retval,       \* value join returned to the caller, -1 if none
    raw,          \* raw std handle given out by detach
    pc,           \* owner: "run", "join_wait", "drop_wait", "done", "aborted"
    cur,          \* handle the owner is blocked on, 0 if none
    panicking,    \* std::thread::panicking() of the owner
    payload,      \* panic unwinding in the owner
    payloadOf,    \* thread whose failure the payload carries, 0 if none
    observed,     \* what catch_unwind around the owner's scope reports
    observedOf,
    abortBy,      \* operation that raised a second panic while unwinding
    abortOf,      \* handle that operation was applied to, 0 if none
    attempts,     \* native thread-creation calls made
    nthreads,     \* native threads created
    spawnRes,     \* per call site: "none", "Ok", "Err"
    misuse,       \* an unwrap of an empty slot has failed
    ident,        \* last thread identity returned by thread(), 0 if none
    wasPanicking, \* history: owner was unwinding when the consuming
                  \* operation began
    earlyCall,    \* history: the thread had not yet terminated when the
                  \* consuming operation began
    via,          \* per call site: "none", "builder", "conv"
    got           \* what the spawn call gave its caller: "none", "handle",
                  \* "err" (the error as a value), "panic"

vars == <<life, slot, tstate, closure, result, counter, nwaits, ntakes,
          consumedBy, fin, retval, raw, pc, cur, panicking, payload,
          payloadOf, observed, observedOf, abortBy, abortOf, attempts,
          nthreads,
          spawnRes, misuse, ident, wasPanicking, earlyCall, via, got>>

hist == <<wasPanicking, earlyCall>>
hvars == <<life, slot, nwaits, ntakes, consumedBy, fin, retval, raw, hist>>
tvars == <<tstate, closure, result, counter>>
pvars == <<panicking, payload, payloadOf, abortBy, abortOf>>
svars == <<attempts, nthreads, spawnRes, via, got>>
ovars == <<observed, observedOf>>

Init ==
    /\ life = [h \in H |-> "unborn"]
    /\ slot = [h \in H |-> "Absent"]
    /\ tstate = [h \in H |-> "none"]
    /\ closure = [h \in H |-> NoClosure]
    /\ result = [h \in H |-> NoResult]
    /\ counter = 0
    /\ nwaits = [h \in H |-> 0]
    /\ ntakes = [h \in H |-> 0]
    /\ consumedBy = [h \in H |-> "none"]
    /\ fin = [h \in H |-> "none"]
    /\ retval = [h \in H |-> -1]
    /\ raw = [h \in H |-> "none"]
    /\ pc = "run"
    /\ cur = 0
    /\ panicking = FALSE
    /\ payload = "none"
    /\ payloadOf = 0
    /\ observed = "pending"
    /\ observedOf = 0
    /\ abortBy = "none"
    /\ abortOf = 0
    /\ attempts = 0
    /\ nthreads = 0
    /\ spawnRes = [h \in H |-> "none"]
    /\ misuse = FALSE
    /\ ident = 0
    /\ wasPanicking = [h \in H |-> FALSE]
    /\ earlyCall = [h \in H |-> FALSE]
    /\ via = [h \in H |-> "none"]
    /\ got = [h \in H |-> "none"]

\* Variant: the wrapper is built with an empty slot.
From_empty == "None"

\* JoinHandle::from: JoinHandle(Some(inner)).
From == "Some"

\* Variant: the slot is read but not vacated.
take_keep(s) == [val |-> s, rest |-> s]

\* Option::take: yields the slot's content and leaves None behind.
take(s) == [val |-> s, rest |-> "None"]

\* Variant: the destructor waits whatever the slot holds.
IfLetSome_always(v) == TRUE

\* The pattern of the destructor's  if let Some(inner) = ...
IfLetSome(v) == v = "Some"

\* Result::is_err of the native join's result.
is_err(res) == ~res.ok

\* Variant: the failure is swallowed and a default value returned.
unwrap_or_default(res) == [panics |-> FALSE, val |-> res.val]

\* Variant: the failure is swallowed when the caller is already unwinding.
unwrap_unlessUnwinding(res) ==
    [panics |-> ~res.ok /\ ~panicking, val |-> res.val]

\* Variant: the value is replaced by the default value.
unwrap_default(res) == [panics |-> ~res.ok, val |-> 0]

\* Result::unwrap of the native join's result: the value, or a panic.
unwrap(res) == [panics |-> ~res.ok, val |-> res.val]

\* Variant: the destructor lets the thread go without joining it.
DropWaitDone_nojoin(h) == TRUE

\* Variant: the destructor asks whether it is unwinding before the wait and
\* does not wait when it is.
DropWaitDone_unlessUnwinding(h) == tstate[h] = "exited" \/ panicking

\* inner.join() in the destructor returns once the thread has terminated.
DropWaitDone(h) == tstate[h] = "exited"

\* Variant: the wait is bounded and may give up before the thread is gone.
JoinWaitDone_timeout(h) == tstate[h] \in {"finishing", "exited"}

\* Variant: join does not wait for the thread.
JoinWaitDone_nojoin(h) == TRUE

\* inner.join() in join returns once the thread has terminated.
JoinWaitDone(h) == tstate[h] = "exited"

\* Variant: the test of the result is inverted.
DropReraises_inverted(res, unwinding) == ~is_err(res) /\ ~unwinding

\* Variant: the destructor never re-raises.
DropReraises_never(res, unwinding) == FALSE

\* Variant: the destructor re-raises without asking whether it is unwinding.
DropReraises_always(res, unwinding) == is_err(res)

\* The condition under which the destructor re-raises the thread's failure.
DropReraises(res, unwinding) == is_err(res) /\ ~unwinding

\* What the native join yields for a terminated thread running closure c.
NativeResult(c) == [ok |-> ~c.panics, val |-> IF c.panics THEN 0 ELSE c.val]

\* Variant: a failed creation is tried a second time.
Builder_spawn_retry(ok) ==
    [calls |-> IF ok THEN 1 ELSE 2, res |-> IF ok THEN "Ok" ELSE "Err"]

\* Builder::spawn's use of the native creation call: one call, whose
\* result (a handle, or an io::Error) is handed on.
Builder_spawn(ok) == [calls |-> 1, res |-> IF ok THEN "Ok" ELSE "Err"]

\* A panic raised in the owner: starts unwinding, or, when the owner is
\* already unwinding, is a second panic, which aborts the process.
Raise(kind, h, by) ==
    IF panicking
    THEN /\ abortBy' = by
         /\ abortOf' = h
         /\ UNCHANGED <<panicking, payload, payloadOf>>
    ELSE /\ panicking' = TRUE
         /\ payload' = kind
         /\ payloadOf' = h
         /\ UNCHANGED <<abortBy, abortOf>>

\* Where the owner continues after an operation that may have raised.
AfterRaise(raised) == IF raised /\ panicking THEN "aborted" ELSE "run"

\* Call sites are numbered in the order the owner reaches them.
NextSite(h) == life[h] = "unborn" /\ \A g \in H : g < h => life[g] # "unborn"

\* Builder::spawn: self.0.spawn(f).map(JoinHandle::from)
BuilderSpawnCore(h, c, ok) ==
    LET n == Builder_spawn(ok) IN
    /\ attempts' = attempts + n.calls
    /\ spawnRes' = [spawnRes EXCEPT ![h] = n.res]
    /\ IF n.res = "Ok"
       THEN /\ life' = [life EXCEPT ![h] = "live"]
            /\ slot' = [slot EXCEPT ![h] = From]
            /\ tstate' = [tstate EXCEPT ![h] = "running"]
            /\ closure' = [closure EXCEPT ![h] = c]
            /\ nthreads' = nthreads + 1
       ELSE /\ life' = [life EXCEPT ![h] = "failed"]
            /\ UNCHANGED <<slot, tstate, closure, nthreads>>

BuilderSpawn(h, c, ok) ==
    /\ pc = "run" /\ ~panicking
    /\ NextSite(h)
    /\ BuilderSpawnCore(h, c, ok)
    /\ via' = [via EXCEPT ![h] = "builder"]
    /\ got' = [got EXCEPT ![h] =
                 IF Builder_spawn(ok).res = "Ok" THEN "handle" ELSE "err"]
    /\ UNCHANGED <<result, counter, nwaits, ntakes, consumedBy, fin, retval,
                   raw, pc, cur, pvars, ovars, misuse, ident, hist>>

\* Variant: the creation error is not turned into a panic.
expect_lenient(res) == [panics |-> FALSE, val |-> res]

\* Result::expect("failed to spawn thread") on Builder::spawn's result.
expect(res) == [panics |-> res = "Err", val |-> res]

\* spawn: Builder::new().spawn(f).expect("failed to spawn thread")
ConvSpawn(h, c, ok) ==
    /\ pc = "run" /\ ~panicking
    /\ NextSite(h)
    /\ BuilderSpawnCore(h, c, ok)
    /\ via' = [via EXCEPT ![h] = "conv"]
    /\ LET e == expect(Builder_spawn(ok).res) IN
       IF e.panics
       THEN /\ Raise("spawnfail", h, "spawn")
            /\ pc' = AfterRaise(TRUE)
            /\ got' = [got EXCEPT ![h] = "panic"]
       ELSE /\ got' = [got EXCEPT ![h] =
                         IF e.val = "Ok" THEN "handle" ELSE "err"]
            /\ UNCHANGED <<pc, pvars>>
    /\ UNCHANGED <<result, counter, nwaits, ntakes, consumedBy, fin, retval,
                   raw, cur, ovars, misuse, ident, hist>>

\* The spawned closure's body: the side effect on the shared counter.
ThreadRun(h) ==
    /\ tstate[h] = "running"
    /\ tstate' = [tstate EXCEPT ![h] = "finishing"]
    /\ counter' = IF closure[h].effect THEN counter + 1 ELSE counter
    /\ UNCHANGED <<closure, result, hvars, pc, cur, pvars, ovars, svars,
                   misuse, ident>>

\* The spawned thread terminates, by return or by panic.
ThreadExit(h) ==
    /\ tstate[h] = "finishing"
    /\ tstate' = [tstate EXCEPT ![h] = "exited"]
    /\ result' = [result EXCEPT ![h] = NativeResult(closure[h])]
    /\ UNCHANGED <<closure, counter, hvars, pc, cur, pvars, ovars, svars,
                   misuse, ident>>

\* Variant: the slot is vacated by the query, as by take.
as_ref_take(s) == [val |-> s, rest |-> "None"]

\* Option::as_ref: looks at the slot's content and leaves the slot as it is.
as_ref(s) == [val |-> s, rest |-> s]

\* JoinHandle::thread: self.0.as_ref().unwrap().thread()
Thread(h) ==
    /\ pc = "run"
    /\ life[h] = "live"
    /\ slot' = [slot EXCEPT ![h] = as_ref(slot[h]).rest]
    /\ IF as_ref(slot[h]).val = "Some"
       THEN /\ ident' = h
            /\ UNCHANGED <<pc, pvars, misuse>>
       ELSE /\ misuse' = TRUE
            /\ Raise("misuse", 0, "thread")
            /\ pc' = AfterRaise(TRUE)
            /\ UNCHANGED ident
    /\ UNCHANGED <<life, nwaits, ntakes, consumedBy, fin, retval, raw,
                   hist, tvars, cur, ovars, svars>>

\* JoinHandle::join up to the blocking native join:
\*   let inner = self.0.take().unwrap(); inner.join()
JoinBegin(h) ==
    /\ pc = "run"
    /\ life[h] = "live"
    /\ LET t == take(slot[h]) IN
       /\ slot' = [slot EXCEPT ![h] = t.rest]
       /\ IF t.val = "Some"
          THEN /\ ntakes' = [ntakes EXCEPT ![h] = @ + 1]
               /\ consumedBy' = [consumedBy EXCEPT ![h] = "join"]
               /\ nwaits' = [nwaits EXCEPT ![h] = @ + 1]
               /\ wasPanicking' = [wasPanicking EXCEPT ![h] = panicking]
               /\ earlyCall' = [earlyCall EXCEPT ![h] = tstate[h] # "exited"]
               /\ pc' = "join_wait"
               /\ cur' = h
               /\ UNCHANGED <<life, pvars, misuse>>
          ELSE /\ misuse' = TRUE
               /\ Raise("misuse", 0, "join")
               /\ pc' = AfterRaise(TRUE)
               /\ life' = [life EXCEPT ![h] = "dead"]
               /\ UNCHANGED <<ntakes, consumedBy, nwaits, hist, cur>>
    /\ UNCHANGED <<fin, retval, raw, tvars, ovars, svars, ident>>

\* The destructor that runs on self when join or detach leaves its body,
\* by return or by unwinding, with slot content s; an abort runs none.
\*   if let Some(inner) = self.0.take() { let res = inner.join(); ...
SelfDrop(h, s, nt, aborted) ==
    LET t == take(s) IN
    IF aborted
    THEN /\ pc' = "aborted"
         /\ cur' = 0
         /\ ntakes' = [ntakes EXCEPT ![h] = nt]
         /\ UNCHANGED <<life, slot, nwaits>>
    ELSE /\ slot' = [slot EXCEPT ![h] = t.rest]
         /\ IF IfLetSome(t.val)
            THEN /\ nwaits' = [nwaits EXCEPT ![h] = @ + 1]
                 /\ ntakes' = [ntakes EXCEPT ![h] = nt + 1]
                 /\ pc' = "drop_wait"
                 /\ cur' = h
                 /\ UNCHANGED life
            ELSE /\ life' = [life EXCEPT ![h] = "dead"]
                 /\ ntakes' = [ntakes EXCEPT ![h] = nt]
                 /\ pc' = "run"
                 /\ cur' = 0
                 /\ UNCHANGED nwaits

\* JoinHandle::join once the native join has returned: .unwrap(), then the
\* destructor of the consumed self.
JoinFinish ==
    /\ pc = "join_wait"
    /\ JoinWaitDone(cur)
    /\ LET h == cur
           u == unwrap(result[h])
       IN
       /\ IF u.panics
          THEN /\ fin' = [fin EXCEPT ![h] = "raised"]
               /\ Raise("thread", h, "join")
               /\ UNCHANGED retval
          ELSE /\ fin' = [fin EXCEPT ![h] = "returned"]
               /\ retval' = [retval EXCEPT ![h] = u.val]
               /\ UNCHANGED pvars
       /\ SelfDrop(h, slot[h], ntakes[h], u.panics /\ panicking)
    /\ UNCHANGED <<consumedBy, raw, hist, tvars, ovars, svars, misuse, ident>>

\* JoinHandle::detach: let inner = self.0.take().unwrap(); inner
\* followed by the destructor of the consumed self.
Detach(h) ==
    /\ pc = "run"
    /\ life[h] = "live"
    /\ LET t == take(slot[h]) IN
       IF t.val = "Some"
       THEN /\ consumedBy' = [consumedBy EXCEPT ![h] = "detach"]
            /\ fin' = [fin EXCEPT ![h] = "detached"]
            /\ raw' = [raw EXCEPT ![h] = "held"]
            /\ wasPanicking' = [wasPanicking EXCEPT ![h] = panicking]
            /\ earlyCall' = [earlyCall EXCEPT ![h] = tstate[h] # "exited"]
            /\ SelfDrop(h, t.rest, ntakes[h] + 1, FALSE)
            /\ UNCHANGED <<pvars, misuse>>
       ELSE /\ misuse' = TRUE
            /\ Raise("misuse", 0, "detach")
            /\ SelfDrop(h, t.rest, ntakes[h], panicking)
            /\ UNCHANGED <<consumedBy, fin, raw, hist>>
    /\ UNCHANGED <<retval, tvars, ovars, svars, ident>>

\* Drop::drop of a handle the owner still holds, up to the blocking native
\* join: if let Some(inner) = self.0.take() { let res = inner.join();
DropBegin(h) ==
    /\ pc = "run"
    /\ life[h] = "live"
    /\ LET t == take(slot[h]) IN
       /\ slot' = [slot EXCEPT ![h] = t.rest]
       /\ IF IfLetSome(t.val)
          THEN /\ ntakes' = [ntakes EXCEPT ![h] = @ + 1]
               /\ consumedBy' = [consumedBy EXCEPT ![h] = "drop"]
               /\ nwaits' = [nwaits EXCEPT ![h] = @ + 1]
               /\ wasPanicking' = [wasPanicking EXCEPT ![h] = panicking]
               /\ earlyCall' = [earlyCall EXCEPT ![h] = tstate[h] # "exited"]
               /\ pc' = "drop_wait"
               /\ cur' = h
               /\ UNCHANGED life
          ELSE /\ life' = [life EXCEPT ![h] = "dead"]
               /\ UNCHANGED <<ntakes, consumedBy, nwaits, hist, pc, cur>>
    /\ UNCHANGED <<fin, retval, raw, tvars, pvars, ovars, svars, misuse,
                   ident>>

\* Drop::drop once the native join has returned:
\*   if res.is_err() && !std::thread::panicking() { res.unwrap(); }
DropFinish ==
    /\ pc = "drop_wait"
    /\ DropWaitDone(cur)
    /\ LET h == cur
           res == result[h]
       IN
       /\ IF DropReraises(res, panicking)
          THEN /\ fin' = [fin EXCEPT ![h] = "raised"]
               /\ Raise("thread", h, "drop")
               /\ pc' = AfterRaise(TRUE)
          ELSE /\ fin' = [fin EXCEPT ![h] =
                            IF is_err(res) THEN "suppressed" ELSE "discarded"]
               /\ pc' = "run"
               /\ UNCHANGED pvars
       /\ life' = IF DropReraises(res, panicking) /\ panicking
                THEN life
                ELSE [life EXCEPT ![h] = "dead"]
       /\ cur' = 0
    /\ UNCHANGED <<slot, nwaits, ntakes, consumedBy, retval, raw,
                   hist, tvars, ovars, svars, misuse, ident>>

\* The raw std::thread::JoinHandle returned by detach goes out of scope:
\* the native facility detaches the thread, it does not wait.
RawDrop(h) ==
    /\ pc = "run"
    /\ raw[h] = "held"
    /\ raw' = [raw EXCEPT ![h] = "dropped"]
    /\ UNCHANGED <<life, slot, nwaits, ntakes, consumedBy, fin, retval,
                   hist, tvars, pc, cur, pvars, ovars, svars, misuse, ident>>

\* The raw handle returned by detach is leaked (never destroyed).
RawLeak(h) ==
    /\ pc = "run"
    /\ raw[h] = "held"
    /\ raw' = [raw EXCEPT ![h] = "leaked"]
    /\ UNCHANGED <<life, slot, nwaits, ntakes, consumedBy, fin, retval,
                   hist, tvars, pc, cur, pvars, ovars, svars, misuse, ident>>

\* The owner fails for a reason of its own: panic!("boom").
OwnerPanic ==
    /\ pc = "run"
    /\ ~panicking
    /\ Raise("own", 0, "owner")
    /\ UNCHANGED <<hvars, tvars, pc, cur, ovars, svars, misuse, ident>>

\* The owner's scope ends once every handle it held has been destroyed;
\* catch_unwind reports normal completion or the panic that unwound.
ScopeExit ==
    /\ pc = "run"
    /\ \A h \in H : life[h] # "live"
    /\ pc' = "done"
    /\ observed' = IF panicking THEN payload ELSE "ok"
    /\ observedOf' = IF panicking THEN payloadOf ELSE 0
    /\ UNCHANGED <<hvars, tvars, cur, pvars, svars, misuse, ident>>

Next ==
    \/ \E h \in H, c \in Closures, ok \in BOOLEAN : BuilderSpawn(h, c, ok)
    \/ \E h \in H, c \in Closures, ok \in BOOLEAN : ConvSpawn(h, c, ok)
    \/ \E h \in H : ThreadRun(h)
    \/ \E h \in H : ThreadExit(h)
    \/ \E h \in H : Thread(h)
    \/ \E h \in H : JoinBegin(h)
    \/ JoinFinish
    \/ \E h \in H : Detach(h)
    \/ \E h \in H : DropBegin(h)
    \/ DropFinish
    \/ \E h \in H : RawDrop(h)
    \/ \E h \in H : RawLeak(h)
    \/ OwnerPanic
    \/ ScopeExit

Spec == Init /\ [][Next]_vars

\* The owner is scheduled fairly: a native join that can return does return.
\* Nothing is assumed of the spawned threads, which may run forever.
FairSpec == Spec /\ WF_vars(JoinFinish) /\ WF_vars(DropFinish)

TypeOK ==
    /\ life \in [H -> {"unborn", "failed", "live", "dead"}]
    /\ slot \in [H -> {"Absent", "Some", "None"}]
    /\ tstate \in [H -> {"none", "running", "finishing", "exited"}]
    /\ closure \in [H -> Closures]
    /\ counter \in 0..MaxHandles
    /\ nwaits \in [H -> 0..2]
    /\ pc \in {"run", "join_wait", "drop_wait", "done", "aborted"}
    /\ cur \in 0..MaxHandles
    /\ panicking \in BOOLEAN
    /\ payload \in {"none", "own", "thread", "spawnfail", "misuse"}

----------------------------------------------------------------------------
\* The consuming operation of handle h has run to its end.
Finished(h) == consumedBy[h] # "none" /\ ~(pc \in {"join_wait", "drop_wait"} /\ cur = h)

\* The threads whose handle was destroyed by the drop rule and whose closure
\* increments the counter.
DroppedEffects ==
    {h \in H : consumedBy[h] = "drop" /\ life[h] = "dead" /\ closure[h].effect}

\* C1: when a handle dropped while Owned has been destroyed, its thread has
\* terminated and the closure's increment of the counter is visible; no
\* thread that was not detached runs on after its handle is destroyed.
C1_DropJoins ==
    /\ \A h \in H :
         life[h] = "dead" /\ consumedBy[h] # "detach" => tstate[h] = "exited"
    /\ counter >= Cardinality(DroppedEffects)

C1_Witness ==
    \E h \in H : /\ consumedBy[h] = "drop" /\ life[h] = "dead"
                 /\ closure[h].effect /\ earlyCall[h]
                 /\ counter >= 1 /\ pc = "run"

\* C2: when the closure returns v, join returns exactly v and raises
\* nothing, whether the thread ended before or after join was called.
C2_JoinReturnsValue ==
    \A h \in H :
      /\ consumedBy[h] = "join" /\ Finished(h) /\ ~closure[h].panics =>
           /\ fin[h] = "returned"
           /\ retval[h] = closure[h].val
           /\ ~(payload = "thread" /\ payloadOf = h)
           /\ abortOf # h
      /\ retval[h] # -1 => ~closure[h].panics /\ retval[h] = closure[h].val

C2_Witness ==
    \E h \in H : /\ consumedBy[h] = "join" /\ fin[h] = "returned"
                 /\ earlyCall[h] /\ closure[h].val = MaxVal
                 /\ retval[h] = MaxVal

\* C3: when the closure panics, join returns no value and the caller fails:
\* the thread's failure unwinds the caller (and is what the enclosing
\* catch_unwind reports), or, in a caller already unwinding, aborts it.
C3_JoinReraises ==
    \A h \in H :
      closure[h].panics /\ consumedBy[h] = "join" =>
        /\ retval[h] = -1
        /\ Finished(h) =>
             /\ fin[h] = "raised"
             /\ panicking
             /\ IF wasPanicking[h]
                THEN pc = "aborted" /\ abortBy = "join" /\ abortOf = h
                ELSE /\ payload = "thread" /\ payloadOf = h
                     /\ pc = "done" => observed = "thread" /\ observedOf = h

C3_Witness ==
    \E h \in H : /\ closure[h].panics /\ consumedBy[h] = "join"
                 /\ fin[h] = "raised" /\ ~wasPanicking[h]
                 /\ pc = "done" /\ observed = "thread"

\* C4: when the closure panics and the handle is dropped while Owned by an
\* owner that is not unwinding, the owner fails at the drop point with the
\* thread's failure, after the thread has terminated.
C4_DropReraises ==
    \A h \in H :
      closure[h].panics /\ consumedBy[h] = "drop" /\ ~wasPanicking[h]
        /\ Finished(h) =>
          /\ tstate[h] = "exited"
          /\ fin[h] = "raised"
          /\ panicking /\ payload = "thread" /\ payloadOf = h
          /\ pc = "done" => observed = "thread" /\ observedOf = h

C4_Witness ==
    \E h \in H : /\ closure[h].panics /\ consumedBy[h] = "drop"
                 /\ ~wasPanicking[h] /\ fin[h] = "raised"
                 /\ pc = "done" /\ observed = "thread"

\* C5: the drop rule of an owner that is already unwinding raises nothing:
\* the panic that is unwinding stays the same across the drop and is the one
\* the enclosing catch_unwind reports, and the drop rule never aborts.
C5_DropSuppresses ==
    [][/\ pc = "drop_wait" /\ panicking =>
            /\ panicking' /\ payload' = payload /\ payloadOf' = payloadOf
            /\ pc' # "aborted"
       /\ abortBy' # "drop"
       /\ \A h \in H : fin'[h] = "suppressed" =>
            ~(payload' = "thread" /\ payloadOf' = h)
       /\ pc # "done" /\ pc' = "done" /\ panicking =>
            observed' = payload /\ observedOf' = payloadOf]_vars

C5_Witness ==
    \E h \in H : /\ closure[h].panics /\ consumedBy[h] = "drop"
                 /\ wasPanicking[h] /\ fin[h] = "suppressed"
                 /\ pc = "done" /\ observed = "own"

\* C6: detach hands out the raw handle without waiting: it is complete as
\* soon as it is called, no wait is ever made on the thread, neither by the
\* destructor of the consumed handle nor when the raw handle is dropped or
\* leaked, and the thread's failure is never raised in the owner.
C6_DetachOptsOut ==
    \A h \in H :
      consumedBy[h] = "detach" =>
        /\ Finished(h) /\ life[h] = "dead" /\ fin[h] = "detached"
        /\ nwaits[h] = 0
        /\ raw[h] \in {"held", "dropped", "leaked"}
        /\ ~(payload = "thread" /\ payloadOf = h)

C6_Witness ==
    \E h \in H : /\ consumedBy[h] = "detach" /\ raw[h] = "dropped"
                 /\ closure[h].panics /\ tstate[h] = "exited" /\ earlyCall[h]
                 /\ pc = "done" /\ observed = "ok"

\* C7: a handle is constructed Owned; its slot is vacated exactly once, by
\* the first of join, detach and drop; once empty the slot stays empty,
\* also through the destructor that follows join or detach.
C7_ConsumedOnce ==
    [][\A h \in H :
         /\ life[h] = "unborn" /\ life'[h] = "live" => slot'[h] = "Some"
         /\ slot[h] = "None" => slot'[h] = "None"
         /\ slot[h] = "Some" /\ slot'[h] = "None" =>
              /\ consumedBy[h] = "none"
              /\ consumedBy'[h] \in {"join", "detach", "drop"}
              /\ ntakes[h] = 0
         /\ consumedBy[h] # "none" => consumedBy'[h] = consumedBy[h]
         /\ ntakes'[h] <= 1
         /\ ntakes'[h] = 1 <=> slot'[h] = "None"
         /\ life'[h] = "dead" => ntakes'[h] = 1]_vars

C7_Witness ==
    \E h \in H : /\ consumedBy[h] = "join" /\ life[h] = "dead"
                 /\ slot[h] = "None" /\ ntakes[h] = 1 /\ fin[h] = "returned"

\* C8: a thread is never waited upon twice, and once a handle that was not
\* detached has been destroyed its thread has been waited upon exactly
\* once; after join has re-raised, the destructor makes no second wait.
C8_WaitedOnce ==
    \A h \in H :
      /\ nwaits[h] <= 1
      /\ life[h] = "dead" /\ consumedBy[h] # "detach" => nwaits[h] = 1
      /\ consumedBy[h] \in {"join", "drop"} => nwaits[h] = 1

C8_Witness ==
    \E h \in H : /\ consumedBy[h] = "join" /\ fin[h] = "raised"
                 /\ life[h] = "dead" /\ nwaits[h] = 1 /\ panicking
                 /\ pc = "run"

\* C9: join and drop complete only after the thread has terminated; detach
\* gives no such ordering (the witness is a completed detach of a thread
\* that is still running).
C9_CompletionAfterExit ==
    [][\A h \in H :
         fin[h] = "none" /\ fin'[h] \in {"returned", "raised", "suppressed",
                                        "discarded"}
           => tstate[h] = "exited" /\ consumedBy[h] \in {"join", "drop"}]_vars

C9_Witness ==
    \E h \in H : /\ consumedBy[h] = "detach" /\ fin[h] = "detached"
                 /\ life[h] = "dead" /\ tstate[h] = "running" /\ pc = "run"

\* C10: Builder::spawn makes one creation attempt per call; on success
\* there is one new thread and a fresh Owned handle for it, on failure the
\* error comes back as a value: no thread, no handle, no panic.
C10_BuilderSpawn ==
    /\ attempts = Cardinality({h \in H : via[h] # "none"})
    /\ nthreads = Cardinality({h \in H : spawnRes[h] = "Ok"})
    /\ nthreads = Cardinality({h \in H : tstate[h] # "none"})
    /\ \A h \in H :
         via[h] = "builder" =>
           /\ spawnRes[h] \in {"Ok", "Err"}
           /\ spawnRes[h] = "Ok" =>
                /\ tstate[h] # "none" /\ life[h] \in {"live", "dead"}
                /\ consumedBy[h] = "none" => slot[h] = "Some" /\ life[h] = "live"
           /\ spawnRes[h] = "Err" =>
                /\ tstate[h] = "none" /\ slot[h] = "Absent"
                /\ life[h] = "failed"
                /\ ~(payload = "spawnfail" /\ payloadOf = h)

C10_Witness ==
    \E h \in H : /\ via[h] = "builder" /\ spawnRes[h] = "Err"
                 /\ ~panicking /\ pc = "done" /\ observed = "ok"
                 /\ attempts = MaxHandles

\* C11: the convenience spawn gives, when creation succeeds, what
\* Builder::spawn gives (one attempt, one new thread, a fresh Owned handle);
\* when creation fails the caller gets neither a handle nor an error value:
\* it panics with the spawn diagnostic, and nothing has been created.
C11_ConvSpawn ==
    \A h \in H :
      via[h] = "conv" =>
        /\ got[h] \in {"handle", "panic"}
        /\ spawnRes[h] = "Ok" =>
             /\ got[h] = "handle"
             /\ tstate[h] # "none" /\ life[h] \in {"live", "dead"}
             /\ consumedBy[h] = "none" => slot[h] = "Some" /\ life[h] = "live"
             /\ ~(payload = "spawnfail" /\ payloadOf = h)
        /\ spawnRes[h] = "Err" =>
             /\ got[h] = "panic"
             /\ tstate[h] = "none" /\ slot[h] = "Absent" /\ life[h] = "failed"
             /\ panicking /\ payload = "spawnfail" /\ payloadOf = h
             /\ pc = "done" => observed = "spawnfail" /\ observedOf = h

C11_Witness ==
    \E h \in H : /\ via[h] = "conv" /\ spawnRes[h] = "Err"
                 /\ got[h] = "panic" /\ pc = "done"
                 /\ observed = "spawnfail"

\* The threads whose handle was dropped while Owned by an owner that was
\* already unwinding, the drop being over, and whose closure increments
\* the counter.
UnwindDroppedEffects ==
    {h \in H : /\ consumedBy[h] = "drop" /\ wasPanicking[h] /\ Finished(h)
               /\ closure[h].effect}

\* C12: a handle dropped while Owned by an owner that is already unwinding
\* is waited for all the same: when that drop is over the thread has
\* terminated, exactly one wait was made and the closure's increment is
\* visible; so the enclosing catch_unwind sees the original failure only
\* after the thread has terminated.
C12_UnwindingDropWaits ==
    /\ \A h \in H :
         consumedBy[h] = "drop" /\ wasPanicking[h] =>
           /\ nwaits[h] = 1
           /\ Finished(h) => tstate[h] = "exited" /\ fin[h] # "none"
           /\ pc = "done" => Finished(h) /\ tstate[h] = "exited"
    /\ counter >= Cardinality(UnwindDroppedEffects)

C12_Witness ==
    \E h \in H : /\ consumedBy[h] = "drop" /\ wasPanicking[h] /\ earlyCall[h]
                 /\ closure[h].effect /\ ~closure[h].panics
                 /\ counter >= 1 /\ tstate[h] = "exited"
                 /\ pc = "done" /\ observed = "own"

\* The failure of thread h has been raised in the owner: it is the panic
\* that unwinds the owner, or the second panic that aborted it.
Reraised(h) ==
    \/ payload = "thread" /\ payloadOf = h
    \/ abortBy \in {"join", "drop"} /\ abortOf = h

\* C13: a thread's failure is dropped without being raised only by the
\* drop rule and only when the owner was unwinding when the wait completed;
\* join always raises it, also in an owner that is already unwinding (where
\* the second panic aborts).
C13_SuppressionOnlyOnUnwindingDrop ==
    \A h \in H :
      closure[h].panics /\ consumedBy[h] \in {"join", "drop"} /\ Finished(h) =>
        /\ ~Reraised(h) => consumedBy[h] = "drop" /\ wasPanicking[h]
        /\ fin[h] = "suppressed" <=> ~Reraised(h)
        /\ consumedBy[h] = "join" =>
             /\ Reraised(h) /\ fin[h] = "raised" /\ retval[h] = -1
             /\ wasPanicking[h] => pc = "aborted" /\ abortBy = "join"

C13_Witness ==
    \E h \in H : /\ closure[h].panics /\ consumedBy[h] = "join"
                 /\ wasPanicking[h] /\ fin[h] = "raised"
                 /\ payload = "own" /\ pc = "aborted" /\ abortBy = "join"

\* C14: when the wait of the drop rule reports normal completion, the drop
\* ends normally: the panic state of the owner is left as it was, unwinding
\* or not, the owner runs on, and the value reaches no one.
C14_DropDiscardsValue ==
    [][\A h \in H :
         /\ consumedBy'[h] = "drop" => retval'[h] = -1
         /\ /\ pc = "drop_wait" /\ cur = h /\ consumedBy[h] = "drop"
            /\ tstate[h] = "exited" /\ ~closure[h].panics
            /\ pc' # "drop_wait"
            => /\ fin'[h] = "discarded"
               /\ life'[h] = "dead"
               /\ pc' = "run"
               /\ UNCHANGED <<pvars, retval, ovars>>]_vars

C14_Witness ==
    \E h \in H : /\ consumedBy[h] = "drop" /\ ~closure[h].panics
                 /\ closure[h].val = MaxVal /\ result[h].val = MaxVal
                 /\ fin[h] = "discarded" /\ retval[h] = -1
                 /\ ~wasPanicking[h] /\ pc = "done" /\ observed = "ok"

\* The owner is blocked in join or in the drop rule of handle h.
Waiting(h) == pc \in {"join_wait", "drop_wait"} /\ cur = h

\* C15: join and the drop rule wait without bound: while the thread has not
\* terminated the owner stays blocked in the same operation and nothing of
\* the owner changes; with the owner scheduled fairly, once the thread has
\* terminated the started join or drop completes.
C15_WaitUnbounded ==
    /\ [][\A h \in H :
            Waiting(h) /\ tstate[h] # "exited" =>
              /\ pc' = pc /\ cur' = cur
              /\ UNCHANGED <<hvars, pvars, ovars>>]_vars
    /\ \A h \in H : (Waiting(h) /\ tstate[h] = "exited") ~> ~Waiting(h)

C15_Witness ==
    \E h \in H : /\ pc = "join_wait" /\ cur = h /\ tstate[h] = "running"
                 /\ consumedBy[h] = "join" /\ nwaits[h] = 1
                 /\ fin[h] = "none"

\* C16: the unwrap of the slot in thread, join and detach never fails:
\* whenever the owner can call one of them on a handle it holds, the slot is
\* non-empty, and no panic or abort ever comes from an empty slot.
C16_NoUseAfterConsume ==
    /\ ~misuse
    /\ payload # "misuse"
    /\ abortBy \notin {"thread", "detach"}
    /\ \A h \in H :
         /\ life[h] = "live" /\ pc = "run" => slot[h] = "Some"
         /\ slot[h] = "None" => consumedBy[h] # "none"
         /\ ident = h => consumedBy[h] # "none" \/ slot[h] = "Some"

C16_Witness ==
    \E h \in H : /\ ident = h /\ consumedBy[h] = "detach" /\ life[h] = "dead"
                 /\ slot[h] = "None" /\ ~misuse /\ pc = "done"
                 /\ observed = "ok"

\* C17: the identity query only observes: a step that returns an identity
\* changes nothing of the handle, of the thread or of the owner, the handle
\* stays Owned, and the query can be made while the thread still runs.
C17_ThreadQueryPure ==
    [][ident' # ident =>
         /\ ident' \in H
         /\ life[ident'] = "live" /\ life'[ident'] = "live"
         /\ slot[ident'] = "Some" /\ slot'[ident'] = "Some"
         /\ nwaits'[ident'] = 0 /\ consumedBy'[ident'] = "none"
         /\ UNCHANGED <<hvars, tvars, pc, cur, pvars, ovars, svars,
                        misuse>>]_vars

C17_Witness ==
    \E h \in H : /\ ident = h /\ tstate[h] = "running" /\ life[h] = "live"
                 /\ slot[h] = "Some" /\ nwaits[h] = 0
                 /\ consumedBy[h] = "none" /\ pc = "run"

====
